---- MODULE Spec2Model ----
(***************************************************************************)
(* pyvista-cityjson: CityJSONReader (src/pyvista_cityjson/reader.py).      *)
(*                                                                         *)
(* A reader is constructed from a file: the file is opened and parsed,     *)
(* its "type" is validated, and the boundaries of every geometry of every  *)
(* CityObject are flattened into one indexed polygon mesh with the         *)
(* per-polygon columns object_type and object_id.  filter_by_type and      *)
(* color_by_surface are read-only queries on that mesh.                    *)
(*                                                                         *)
(* JSON values are tagged records: Num(n), Str(s), List(<<...>>).  A JSON  *)
(* object is a record whose optional keys carry a has* flag.  A Python     *)
(* exception is a result with a non-empty err field; a call that raises    *)
(* abandons everything computed so far.                                    *)
(***************************************************************************)
EXTENDS Integers, Sequences, FiniteSets, TLC

VARIABLES
    file,     \* the file system entry behind self.filename
    pc,       \* "new": before CityJSONReader(filename); "ready"; "raised"
    _data,    \* self._data
    _mesh,    \* self._mesh
    raised,   \* the exception that left __init__, "" when none
    ret       \* the last query and what it returned

vars == <<file, pc, _data, _mesh, raised, ret>>

-----------------------------------------------------------------------------
(* Bounds of the enumerated inputs *)

MaxRingLen == 4    \* longest ring of vertex indices
MaxFaces == 2      \* face entries in one geometry built from several entries
MaxShells == 2     \* shells in one Solid built from several entries
MaxObjects == 2    \* CityObjects in one multi-object document

-----------------------------------------------------------------------------
(* JSON values and Python results *)

None == [k |-> "None"]
Num(n) == [k |-> "num", n |-> n]
Str(s) == [k |-> "str", s |-> s]
List(s) == [k |-> "list", items |-> s]
Absent == [k |-> "absent"]

\* isinstance(v, list)
IsList(v) == v.k = "list"

Ok(v) == [err |-> "", val |-> v]
Raise(e) == [err |-> e, val |-> None]

\* r, then F of its value: an exception raised by r leaves at once
Then(r, F(_)) == IF r.err # "" THEN r ELSE F(r.val)

\* min_vertices = 3
min_vertices == 3

-----------------------------------------------------------------------------
(* Face extraction *)

\* len(face) >= min_vertices; len() of a number is a TypeError
_is_valid_face(face) ==
    IF IsList(face) THEN Ok(Len(face.items) >= min_vertices)
    ELSE Raise("TypeError")

\* SolidFace taking the face entry as the ring whatever it holds
SolidFace_NoUnwrap(face_def) == face_def

\* face_def[0] if isinstance(face_def[0], list) else face_def
SolidFace(face_def) ==
    IF IsList(face_def.items[1]) THEN face_def.items[1] ELSE face_def

\* the body of "for face_def in shell": the faces this entry appends
SolidFaceDef(face_def) ==
    IF IsList(face_def) /\ Len(face_def.items) > 0
    THEN Then(_is_valid_face(SolidFace(face_def)),
              LAMBDA valid : Ok(IF valid THEN <<SolidFace(face_def)>> ELSE <<>>))
    ELSE Ok(<<>>)

\* SurfaceFace taking the face entry as the ring whatever it holds
SurfaceFace_NoUnwrap(face_def) == Ok(face_def)

\* face_def[0] if isinstance(face_def, list) and isinstance(face_def[0], list)
\* else face_def; face_def[0] of an empty list is an IndexError
SurfaceFace(face_def) ==
    IF IsList(face_def) /\ face_def.items = <<>> THEN Raise("IndexError")
    ELSE Ok(IF IsList(face_def) /\ IsList(face_def.items[1])
            THEN face_def.items[1] ELSE face_def)

\* if self._is_valid_face(face): faces.append(face)
KeepValid(face) ==
    Then(_is_valid_face(face), LAMBDA valid : Ok(IF valid THEN <<face>> ELSE <<>>))

\* the body of "for face_def in boundaries": the faces this entry appends
SurfaceFaceDef(face_def) == Then(SurfaceFace(face_def), KeepValid)

\* "for face_def in shell", appending to faces
RECURSIVE SolidShell(_, _)
SolidShell(defs, faces) ==
    IF defs = <<>> THEN Ok(faces)
    ELSE Then(SolidFaceDef(Head(defs)),
              LAMBDA kept : SolidShell(Tail(defs), faces \o kept))

\* "for shell in boundaries"; iterating a number is a TypeError
RECURSIVE SolidShells(_, _)
SolidShells(shells, faces) ==
    IF shells = <<>> THEN Ok(faces)
    ELSE IF ~IsList(Head(shells)) THEN Raise("TypeError")
    ELSE Then(SolidShell(Head(shells).items, faces),
              LAMBDA more : SolidShells(Tail(shells), more))

_extract_solid_faces(boundaries) ==
    IF ~IsList(boundaries) THEN Raise("TypeError")
    ELSE SolidShells(boundaries.items, <<>>)

\* "for face_def in boundaries", appending to faces
RECURSIVE SurfaceFaces(_, _)
SurfaceFaces(defs, faces) ==
    IF defs = <<>> THEN Ok(faces)
    ELSE Then(SurfaceFaceDef(Head(defs)),
              LAMBDA kept : SurfaceFaces(Tail(defs), faces \o kept))

_extract_surface_faces(boundaries) ==
    IF ~IsList(boundaries) THEN Raise("TypeError")
    ELSE SurfaceFaces(boundaries.items, <<>>)

\* geometry.get("type", "") and geometry.get("boundaries", [])
GeomType(geometry) == IF geometry.hasType THEN geometry.type ELSE ""
GeomBoundaries(geometry) ==
    IF geometry.hasBoundaries THEN geometry.boundaries ELSE List(<<>>)

_extract_faces_from_geometry(geometry) ==
    LET geom_type == GeomType(geometry)
        boundaries == GeomBoundaries(geometry)
    IN  IF geom_type = "Solid" THEN _extract_solid_faces(boundaries)
        ELSE IF geom_type \in {"MultiSurface", "CompositeSurface"}
             THEN _extract_surface_faces(boundaries)
             ELSE Ok(<<>>)

-----------------------------------------------------------------------------
(* Mesh *)

NoCellData == [keys |-> {}, object_type |-> <<>>, object_id |-> <<>>]

\* pv.PolyData(): no points, no cells, no cell data
EmptyPolyData ==
    [k |-> "PolyData", points |-> <<>>, faces |-> <<>>, cell_data |-> NoCellData]

\* pv.PolyData(vertices, faces): faces is the padded array [n, i0, .., n, j0, ..]
PolyData(vertices, faces) ==
    [k |-> "PolyData", points |-> vertices, faces |-> faces,
     cell_data |-> NoCellData]

\* the cells a padded connectivity array describes
RECURSIVE CellsOf(_)
CellsOf(faces) ==
    IF faces = <<>> THEN <<>>
    ELSE LET n == Head(faces)
         IN  <<SubSeq(faces, 2, n + 1)>> \o CellsOf(SubSeq(faces, n + 2, Len(faces)))

n_cells(mesh) == Len(CellsOf(mesh.faces))
n_points(mesh) == Len(mesh.points)

\* np.hstack(all_faces)
RECURSIVE hstack(_)
hstack(arrays) ==
    IF arrays = <<>> THEN <<>> ELSE Head(arrays) \o hstack(Tail(arrays))

\* [len(face), *face]
Padded(face) == <<Len(face.items)>> \o [i \in 1..Len(face.items) |-> face.items[i].n]

NoFaces == [all_faces |-> <<>>, object_type |-> <<>>, object_id |-> <<>>]

\* "for face in faces": one padded face and one entry in each column per face
AppendFaces(acc, faces, obj_type, obj_id) ==
    [all_faces |-> acc.all_faces \o [i \in 1..Len(faces) |-> Padded(faces[i])],
     object_type |-> acc.object_type \o [i \in 1..Len(faces) |-> obj_type],
     object_id |-> acc.object_id \o [i \in 1..Len(faces) |-> obj_id]]

\* "for geom in geometries"
RECURSIVE GeometryLoop(_, _, _, _)
GeometryLoop(geometries, obj_type, obj_id, acc) ==
    IF geometries = <<>> THEN Ok(acc)
    ELSE Then(_extract_faces_from_geometry(Head(geometries)),
              LAMBDA faces : GeometryLoop(Tail(geometries), obj_type, obj_id,
                                          AppendFaces(acc, faces, obj_type, obj_id)))

\* obj_data.get("type", "Unknown") and obj_data.get("geometry", [])
ObjType(obj_data) == IF obj_data.hasType THEN obj_data.type ELSE "Unknown"
ObjGeometry(obj_data) == IF obj_data.hasGeometry THEN obj_data.geometry ELSE <<>>

\* "for obj_id, obj_data in city_objects.items()", in the mapping's order
RECURSIVE CityObjectLoop(_, _)
CityObjectLoop(items, acc) ==
    IF items = <<>> THEN Ok(acc)
    ELSE Then(GeometryLoop(ObjGeometry(Head(items).obj), ObjType(Head(items).obj),
                           Head(items).id, acc),
              LAMBDA more : CityObjectLoop(Tail(items), more))

\* self._data.get("vertices", []) and self._data.get("CityObjects", {})
DataVertices(data) == IF data.hasVertices THEN data.vertices ELSE <<>>
DataCityObjects(data) == IF data.hasCityObjects THEN data.CityObjects ELSE <<>>

\* NoFacesMesh keeping the points: pv.PolyData(vertices)
NoFacesMesh_KeepPoints(vertices) == PolyData(vertices, <<>>)

\* "if len(all_faces) == 0": the mesh when the traversal produced no face
NoFacesMesh(vertices) == EmptyPolyData

\* the mesh built from the faces, with its cell data
FacesMesh(vertices, acc) ==
    [PolyData(vertices, hstack(acc.all_faces)) EXCEPT
        !.cell_data = [keys |-> {"object_type", "object_id"},
                       object_type |-> acc.object_type,
                       object_id |-> acc.object_id]]

\* what the traversal leaves in self._mesh
MeshOf(vertices, acc) ==
    IF Len(acc.all_faces) = 0 THEN NoFacesMesh(vertices) ELSE FacesMesh(vertices, acc)

\* _create_mesh without the early return for a document without vertices
_create_mesh_NoEarlyReturn(data) ==
    Then(CityObjectLoop(DataCityObjects(data), NoFaces),
         LAMBDA acc : Ok(MeshOf(DataVertices(data), acc)))

\* the result is the value assigned to self._mesh, or the exception
_create_mesh(data) ==
    IF Len(DataVertices(data)) = 0 THEN Ok(EmptyPolyData)
    ELSE Then(CityObjectLoop(DataCityObjects(data), NoFaces),
              LAMBDA acc : Ok(MeshOf(DataVertices(data), acc)))

-----------------------------------------------------------------------------
(* Loading *)

\* Path(self.filename).open(): the OSError it raises, "" when it opens
OpenError(f) ==
    CASE f.path = "missing" -> "FileNotFoundError"
      [] f.path = "directory" -> "IsADirectoryError"
      [] f.path = "unreadable" -> "PermissionError"
      [] OTHER -> ""

\* LoadError with "except OSError" for "except FileNotFoundError"
LoadError_AnyOSError(f) ==
    IF OpenError(f) # "" THEN "FileNotFoundError: File not found"
    ELSE IF f.content.k = "text" THEN "ValueError: Invalid JSON file"
    ELSE ""

\* the except clauses around open() and json.load()
LoadError(f) ==
    IF OpenError(f) = "FileNotFoundError" THEN "FileNotFoundError: File not found"
    ELSE IF OpenError(f) # "" THEN OpenError(f)
    ELSE IF f.content.k = "text" THEN "ValueError: Invalid JSON file"
    ELSE ""

\* self._data.get("type") != "CityJSON"; .get exists on a dict only
TypeError_(data) ==
    IF data.k # "dict" THEN "AttributeError"
    ELSE IF data.type # Str("CityJSON") THEN "ValueError: Invalid CityJSON file"
    ELSE ""

\* what __init__ leaves: the fields of the reader and the exception raised
_load_file(f) ==
    IF LoadError(f) # ""
    THEN [data |-> None, mesh |-> None, err |-> LoadError(f)]
    ELSE IF TypeError_(f.content.value) # ""
    THEN [data |-> f.content.value, mesh |-> None, err |-> TypeError_(f.content.value)]
    ELSE [data |-> f.content.value,
          mesh |-> _create_mesh(f.content.value).val,
          err |-> _create_mesh(f.content.value).err]

-----------------------------------------------------------------------------
(* Queries *)

\* np.where(np.array(cell_data["object_type"]) == object_type)[0]
cell_indices(mesh, object_type) ==
    {i \in 1..Len(mesh.cell_data.object_type) :
        mesh.cell_data.object_type[i] = object_type}

\* the indices np.where yields: ascending
RECURSIVE Ascending(_)
Ascending(S) ==
    IF S = {} THEN <<>>
    ELSE LET m == CHOOSE x \in S : \A y \in S : x <= y
         IN  <<m>> \o Ascending(S \ {m})

\* mesh.extract_cells(ind): the cells ind names, in ind's order, with their
\* cell data; cells are given by the original point ids
extract_cells(mesh, ind) ==
    LET idx == Ascending(ind)
        cells == CellsOf(mesh.faces)
    IN  [k |-> "UnstructuredGrid",
         cells |-> [i \in 1..Len(idx) |-> cells[idx[i]]],
         cell_data |->
            [keys |-> mesh.cell_data.keys,
             object_type |-> [i \in 1..Len(idx) |-> mesh.cell_data.object_type[idx[i]]],
             object_id |-> [i \in 1..Len(idx) |-> mesh.cell_data.object_id[idx[i]]]]]

\* filter_by_type without "if not np.any(cell_mask): return None"
filter_by_type_NoMatchCheck(mesh, object_type) ==
    IF mesh = None \/ "object_type" \notin mesh.cell_data.keys THEN None
    ELSE extract_cells(mesh, cell_indices(mesh, object_type))

filter_by_type(mesh, object_type) ==
    IF mesh = None \/ "object_type" \notin mesh.cell_data.keys THEN None
    ELSE IF cell_indices(mesh, object_type) = {} THEN None
    ELSE extract_cells(mesh, cell_indices(mesh, object_type))

\* color_by_surface without the test for the object_type column
color_by_surface_NoColumnCheck(mesh) == IF mesh = None THEN None ELSE mesh

color_by_surface(mesh) ==
    IF mesh = None THEN None
    ELSE IF "object_type" \in mesh.cell_data.keys THEN mesh
    ELSE None

-----------------------------------------------------------------------------
(* The enumerated inputs: files, documents, geometries *)

SeqsUpTo(S, n) == UNION {[1..m -> S] : m \in 0..n}

\* a ring of n vertex indices: [0, 1, .., n-1]
Ring(n) == List([i \in 1..n |-> Num(i - 1)])
Rings == {Ring(n) : n \in 0..MaxRingLen}

\* a face entry: a number, a flat ring ([] among them), a ring wrapped in a
\* list, a wrapped outer ring followed by two hole rings
WrappedFaces == {List(<<r>>) : r \in Rings}
HoleFaces ==
    {List(<<r, Ring(min_vertices), Ring(min_vertices)>>) :
        r \in {Ring(min_vertices - 1), Ring(MaxRingLen)}}
FaceDefs == {Num(7)} \cup Rings \cup WrappedFaces \cup HoleFaces

\* the face entries that geometries of several entries are built from: a number,
\* [], a flat ring, the same ring wrapped, a longer ring wrapped, a wrapped ring
\* too short
CoreDefs ==
    {Num(7), Ring(0), Ring(min_vertices), List(<<Ring(min_vertices)>>),
     List(<<Ring(MaxRingLen)>>), List(<<Ring(min_vertices - 1)>>)}

\* the shells holding exactly n face entries; a number stands where a shell should
ShellsOf(n) ==
    {List(s) : s \in [1..n -> CoreDefs]} \cup (IF n = 0 THEN {Num(7)} ELSE {})

\* the sequences of at most n shells holding at most b face entries together
RECURSIVE ShellSeqs(_, _)
ShellSeqs(n, b) ==
    {<<>>} \cup
    (IF n = 0 THEN {}
     ELSE UNION {{<<sh>> \o rest : sh \in ShellsOf(m), rest \in ShellSeqs(n - 1, b - m)} :
                    m \in 0..b})

SolidBoundaries ==
    {List(s) : s \in ShellSeqs(MaxShells, MaxFaces)}
    \cup {List(<<List(<<f>>)>>) : f \in FaceDefs}
    \cup {Num(7)}
SurfaceBoundaries ==
    {List(s) : s \in SeqsUpTo(CoreDefs, MaxFaces)}
    \cup {List(<<f>>) : f \in FaceDefs}
    \cup {Num(7)}

Geom(type, boundaries) ==
    [hasType |-> TRUE, type |-> type, hasBoundaries |-> TRUE, boundaries |-> boundaries]

\* the geometries of the one-geometry documents: every face entry alone, and
\* the sequences of core entries
DeepGeoms ==
    {Geom("Solid", b) : b \in SolidBoundaries}
    \cup {Geom(t, b) : t \in {"MultiSurface", "CompositeSurface"}, b \in SurfaceBoundaries}

\* the geometries of the multi-object documents
SolidTwo ==
    Geom("Solid", List(<<List(<<List(<<Ring(MaxRingLen)>>), List(<<Ring(min_vertices)>>)>>)>>))
SurfOne == Geom("MultiSurface", List(<<Ring(min_vertices)>>))
ShortSurf == Geom("CompositeSurface", List(<<List(<<Ring(min_vertices - 1)>>)>>))
Unsupported == Geom("MultiPoint", Ring(min_vertices))
NoTypeGeom == [Geom("", List(<<Ring(min_vertices)>>)) EXCEPT !.hasType = FALSE]
NoBoundaries == [Geom("Solid", List(<<>>)) EXCEPT !.hasBoundaries = FALSE]
BadSolid == Geom("Solid", List(<<Num(7)>>))

ZeroFaces == <<Unsupported, ShortSurf, NoTypeGeom, NoBoundaries>>

Obj(hasType, type, hasGeometry, geometry) ==
    [hasType |-> hasType, type |-> type, hasGeometry |-> hasGeometry, geometry |-> geometry]

CityObjs ==
    {Obj(TRUE, t, TRUE, g) :
        t \in {"Building", "Bridge"}, g \in {<<SolidTwo>>, <<SurfOne, SolidTwo>>}}
    \cup {Obj(FALSE, "", TRUE, <<SurfOne>>),
          Obj(TRUE, "Building", TRUE, <<BadSolid>>),
          Obj(TRUE, "Bridge", TRUE, ZeroFaces),
          Obj(TRUE, "Building", FALSE, <<>>)}

\* the mapping's keys, in the mapping's order
ObjIds == <<"id1", "id2", "id3", "id4", "id5", "id6">>
Items(objs) == [i \in 1..Len(objs) |-> [id |-> ObjIds[i], obj |-> objs[i]]]

Vertices(n) == [i \in 1..n |-> <<i - 1, 0, 0>>]

Dict(type, hasVertices, vertices, hasCityObjects, items) ==
    [k |-> "dict", type |-> type, hasVertices |-> hasVertices, vertices |-> vertices,
     hasCityObjects |-> hasCityObjects, CityObjects |-> items]

TopTypes == {Absent, Str("CityJSON"), Str("cityjson"), Str("NotCityJSON"), Num(1)}

WideDocs ==
    {Dict(t, v.has, v.v, TRUE, Items(objs)) :
        t \in TopTypes,
        v \in {[has |-> FALSE, v |-> <<>>], [has |-> TRUE, v |-> <<>>],
               [has |-> TRUE, v |-> Vertices(MaxRingLen)]},
        objs \in SeqsUpTo(CityObjs, MaxObjects)}
    \cup {Dict(t, TRUE, Vertices(MaxRingLen), FALSE, <<>>) : t \in TopTypes}

DeepDocs ==
    {Dict(Str("CityJSON"), TRUE, Vertices(MaxRingLen), TRUE,
          Items(<<Obj(TRUE, "Building", TRUE, <<g>>)>>)) : g \in DeepGeoms}

\* a JSON text that holds no object at its top level: [] for one
JsonArray == [k |-> "array"]

Files ==
    {[path |-> p, content |-> [k |-> "none"]] : p \in {"missing", "directory", "unreadable"}}
    \cup {[path |-> "file", content |-> [k |-> "text"]]}
    \cup {[path |-> "file", content |-> [k |-> "json", value |-> d]] :
            d \in {JsonArray} \cup WideDocs \cup DeepDocs}

FilterArgs == {"Building", "building", "Bridge"}

-----------------------------------------------------------------------------
(* The reader *)

NoRet == [op |-> "", arg |-> "", val |-> None]

Init ==
    /\ file \in Files
    /\ pc = "new"
    /\ _data = None
    /\ _mesh = None
    /\ raised = ""
    /\ ret = NoRet

\* CityJSONReader(filename): __init__, _load_file and _create_mesh
Construct ==
    /\ pc = "new"
    /\ _data' = _load_file(file).data
    /\ _mesh' = _load_file(file).mesh
    /\ raised' = _load_file(file).err
    /\ pc' = IF _load_file(file).err = "" THEN "ready" ELSE "raised"
    /\ UNCHANGED <<file, ret>>

FilterByType(object_type) ==
    /\ pc = "ready"
    /\ ret' = [op |-> "filter_by_type", arg |-> object_type,
               val |-> filter_by_type(_mesh, object_type)]
    /\ UNCHANGED <<file, pc, _data, _mesh, raised>>

ColorBySurface ==
    /\ pc = "ready"
    /\ ret' = [op |-> "color_by_surface", arg |-> "", val |-> color_by_surface(_mesh)]
    /\ UNCHANGED <<file, pc, _data, _mesh, raised>>

Next ==
    \/ Construct
    \/ \E t \in FilterArgs : FilterByType(t)
    \/ ColorBySurface

Spec == Init /\ [][Next]_vars

-----------------------------------------------------------------------------
(* What the claims speak of *)

IsJson == file.path = "file" /\ file.content.k = "json"
IsDict == IsJson /\ file.content.value.k = "dict"
IsCityJSON == IsDict /\ file.content.value.type = Str("CityJSON")
Doc == file.content.value
HasVertices == IsCityJSON /\ Doc.hasVertices /\ Doc.vertices # <<>>
Built == pc = "ready" /\ HasVertices

RECURSIVE Flatten(_)
Flatten(ss) == IF ss = <<>> THEN <<>> ELSE Head(ss) \o Flatten(Tail(ss))

\* the geometries of a document in traversal order, each with its owner
GeomsOf(obj) == IF obj.hasGeometry THEN obj.geometry ELSE <<>>
Owned(items) ==
    Flatten([i \in 1..Len(items) |->
                [j \in 1..Len(GeomsOf(items[i].obj)) |->
                    [id |-> items[i].id, obj |-> items[i].obj,
                     geom |-> GeomsOf(items[i].obj)[j]]]])
DocGeoms == IF Doc.hasCityObjects THEN Owned(Doc.CityObjects) ELSE <<>>

Indices(ring) == [i \in 1..Len(ring.items) |-> ring.items[i].n]
IsRing(v) == IsList(v) /\ \A i \in 1..Len(v.items) : v.items[i].k = "num"
IsWrapped(v) == IsList(v) /\ v.items # <<>> /\ \A i \in 1..Len(v.items) : IsRing(v.items[i])
OuterRing(v) == v.items[1]
Cells == CellsOf(_mesh.faces)

\* a Solid whose shells hold only face entries with an outer ring of >= 3 indices
GoodSolid(g) ==
    /\ g.hasType /\ g.type = "Solid" /\ g.hasBoundaries /\ IsList(g.boundaries)
    /\ \A s \in 1..Len(g.boundaries.items) :
        /\ IsList(g.boundaries.items[s])
        /\ \A f \in 1..Len(g.boundaries.items[s].items) :
            /\ IsWrapped(g.boundaries.items[s].items[f])
            /\ Len(OuterRing(g.boundaries.items[s].items[f]).items) >= 3

\* its outer rings, shell by shell, face by face
SolidRings(g) ==
    Flatten([s \in 1..Len(g.boundaries.items) |->
                [f \in 1..Len(g.boundaries.items[s].items) |->
                    Indices(OuterRing(g.boundaries.items[s].items[f]))]])

\* a MultiSurface or CompositeSurface whose face entries are rings of >= 3
\* indices, each flat or wrapped (holes may follow the wrapped ring)
GoodFace(v) ==
    \/ IsRing(v) /\ Len(v.items) >= 3
    \/ IsWrapped(v) /\ Len(OuterRing(v).items) >= 3
GoodSurface(g) ==
    /\ g.hasType /\ g.type \in {"MultiSurface", "CompositeSurface"}
    /\ g.hasBoundaries /\ IsList(g.boundaries)
    /\ \A f \in 1..Len(g.boundaries.items) : GoodFace(g.boundaries.items[f])

FaceRing(v) == IF IsRing(v) THEN Indices(v) ELSE Indices(OuterRing(v))
SurfaceRings(g) == [f \in 1..Len(g.boundaries.items) |-> FaceRing(g.boundaries.items[f])]

\* the polygons the document's k-th geometry is to contribute when Good(g) names
\* it with rings Rings(g); what the reader extracts stands for every other one
Share(og, Good(_), RingsOf(_)) ==
    IF Good(og.geom) THEN RingsOf(og.geom)
    ELSE LET r == _extract_faces_from_geometry(og.geom)
         IN  [i \in 1..Len(r.val) |-> Indices(r.val[i])]

Tagged(og, rings) ==
    [i \in 1..Len(rings) |->
        [cell |-> rings[i], id |-> og.id,
         type |-> IF og.obj.hasType THEN og.obj.type ELSE "Unknown"]]

\* the mesh's cells with their two attributes
MeshRows ==
    [i \in 1..Len(Cells) |->
        [cell |-> Cells[i], id |-> _mesh.cell_data.object_id[i],
         type |-> _mesh.cell_data.object_type[i]]]

Expected(Good(_), RingsOf(_)) ==
    Flatten([k \in 1..Len(DocGeoms) |->
                Tagged(DocGeoms[k], Share(DocGeoms[k], Good, RingsOf))])

\* C1: in the mesh built from a document with vertices, a Solid whose face
\* entries all have an outer ring of at least 3 indices stands with exactly its
\* outer rings, shell by shell and face by face, between the polygons of the
\* geometries before and after it, each tagged with its owner's type and id.
C1_SolidFaces ==
    Built => /\ Len(_mesh.cell_data.object_type) = Len(Cells)
             /\ Len(_mesh.cell_data.object_id) = Len(Cells)
             /\ MeshRows = Expected(GoodSolid, SolidRings)

\* a Solid of two shells with different rings was built
C1_Witness ==
    /\ Built
    /\ \E k \in 1..Len(DocGeoms) :
        /\ GoodSolid(DocGeoms[k].geom)
        /\ Len(DocGeoms[k].geom.boundaries.items) = 2
        /\ Len(SolidRings(DocGeoms[k].geom)) = 2
        /\ SolidRings(DocGeoms[k].geom)[1] # SolidRings(DocGeoms[k].geom)[2]

\* the document with MultiSurface and CompositeSurface exchanged
SwapType(g) ==
    IF g.type = "MultiSurface" THEN [g EXCEPT !.type = "CompositeSurface"]
    ELSE IF g.type = "CompositeSurface" THEN [g EXCEPT !.type = "MultiSurface"]
    ELSE g
SwapObj(o) == [o EXCEPT !.geometry = [j \in 1..Len(o.geometry) |-> SwapType(o.geometry[j])]]
Swapped(doc) ==
    [doc EXCEPT !.CityObjects =
        [i \in 1..Len(doc.CityObjects) |->
            [id |-> doc.CityObjects[i].id, obj |-> SwapObj(doc.CityObjects[i].obj)]]]
SwappedFile == [file EXCEPT !.content.value = Swapped(Doc)]

\* C2: in a MultiSurface or CompositeSurface a face entry given as a flat ring
\* of at least 3 indices and one given as that ring wrapped in a list (holes may
\* follow it) both become the polygon of that ring, with the owner's type and
\* id; exchanging MultiSurface and CompositeSurface changes nothing in what
\* the reader builds or raises.
C2_SurfaceFaces ==
    /\ Built => MeshRows = Expected(GoodSurface, SurfaceRings)
    /\ pc # "new" /\ IsCityJSON =>
        /\ _mesh = _load_file(SwappedFile).mesh
        /\ raised = _load_file(SwappedFile).err

\* a surface holding the same ring flat and wrapped was built
C2_Witness ==
    /\ Built
    /\ \E k \in 1..Len(DocGeoms) :
        /\ GoodSurface(DocGeoms[k].geom)
        /\ \E a, b \in 1..Len(DocGeoms[k].geom.boundaries.items) :
            /\ IsRing(DocGeoms[k].geom.boundaries.items[a])
            /\ IsWrapped(DocGeoms[k].geom.boundaries.items[b])
            /\ Cells[a] = Cells[b]
    /\ Len(Cells) = 2

\* a geometry of a supported type nested as it should be, whose face entries
\* are rings of whatever length, flat or wrapped
RingFace(v) == IsRing(v) \/ IsWrapped(v)
RingOnly(g) ==
    /\ g.hasType /\ g.hasBoundaries /\ IsList(g.boundaries)
    /\ \/ /\ g.type = "Solid"
          /\ \A s \in 1..Len(g.boundaries.items) :
                /\ IsList(g.boundaries.items[s])
                /\ \A f \in 1..Len(g.boundaries.items[s].items) :
                    RingFace(g.boundaries.items[s].items[f])
       \/ /\ g.type \in {"MultiSurface", "CompositeSurface"}
          /\ \A f \in 1..Len(g.boundaries.items) : RingFace(g.boundaries.items[f])
AllRings(g) ==
    IF g.type = "Solid"
    THEN Flatten([s \in 1..Len(g.boundaries.items) |->
                    [f \in 1..Len(g.boundaries.items[s].items) |->
                        FaceRing(g.boundaries.items[s].items[f])]])
    ELSE [f \in 1..Len(g.boundaries.items) |-> FaceRing(g.boundaries.items[f])]
LongEnough(ring) == Len(ring) >= 3
KeptRings(g) == SelectSeq(AllRings(g), LongEnough)

\* C3: every polygon has at least 3 indices; in a Solid, MultiSurface or
\* CompositeSurface a face whose ring has 0, 1 or 2 indices is dropped without
\* an error and the other faces are emitted.
C3_ShortFacesDropped ==
    /\ pc = "ready" => \A i \in 1..Len(Cells) : Len(Cells[i]) >= 3
    /\ (/\ pc # "new" /\ HasVertices
        /\ \A k \in 1..Len(DocGeoms) : RingOnly(DocGeoms[k].geom))
       => /\ pc = "ready"
          /\ MeshRows = Flatten([k \in 1..Len(DocGeoms) |->
                                    Tagged(DocGeoms[k], KeptRings(DocGeoms[k].geom))])

NoVertices == IsCityJSON /\ (~Doc.hasVertices \/ Doc.vertices = <<>>)

\* C4: a document whose vertices are empty or absent gives a mesh of zero
\* points and zero polygons and raises nothing, whatever its CityObjects hold.
C4_EmptyVertices ==
    pc # "new" /\ NoVertices =>
        /\ pc = "ready" /\ raised = ""
        /\ n_points(_mesh) = 0 /\ n_cells(_mesh) = 0
        /\ _mesh.cell_data.keys = {}

\* a document without vertices holding faces and a malformed Solid was built
C4_Witness ==
    /\ pc = "ready" /\ NoVertices
    /\ \E k \in 1..Len(DocGeoms) : DocGeoms[k].geom = BadSolid
    /\ \E k \in 1..Len(DocGeoms) : DocGeoms[k].geom = SolidTwo

\* C5 as stated: a document with vertices whose traversal yields no polygon
\* gives a mesh holding the document's vertices as points.
C5_PointsKept ==
    Built /\ n_cells(_mesh) = 0 => n_points(_mesh) = Len(Doc.vertices)

\* C5: a document with vertices whose traversal yields no polygon gives the
\* empty mesh of a document without vertices: no points, no polygons, no
\* attribute columns.
C5_PointsDropped ==
    Built /\ n_cells(_mesh) = 0 => _mesh = EmptyPolyData

\* a document with vertices and geometries that yield no polygon was built
C5_Witness ==
    /\ Built /\ n_cells(_mesh) = 0
    /\ \E k \in 1..Len(DocGeoms) : DocGeoms[k].geom = ShortSurf

\* C6: valid JSON whose type is absent or not the string "CityJSON", a top-level
\* value without a type field among them, fails with the invalid-format
\* error before any mesh is built.
C6_InvalidFormat ==
    pc # "new" /\ IsJson /\ ~IsCityJSON =>
        /\ pc = "raised"
        /\ raised = "ValueError: Invalid CityJSON file"
        /\ _mesh = None

\* C7 as stated: every path that is no readable file fails with the not-found
\* error.
C7_AlwaysNotFound ==
    pc # "new" /\ file.path # "file" => raised = "FileNotFoundError: File not found"

\* C7: load fails with the not-found error exactly for a path that does not
\* exist; a directory and a file without read permission fail with open()'s
\* own IsADirectoryError and PermissionError.
C7_NotFound ==
    pc # "new" =>
        /\ raised = "FileNotFoundError: File not found" <=> file.path = "missing"
        /\ file.path = "directory" => pc = "raised" /\ raised = "IsADirectoryError"
        /\ file.path = "unreadable" => pc = "raised" /\ raised = "PermissionError"

\* loading a directory has failed
C7_Witness == pc = "raised" /\ file.path = "directory"

\* C8: with vertices present, no unsupported or missing geometry type, short
\* face, empty face entry or number in place of a face entry or shell makes
\* the build raise.
C8_NoGeometryError ==
    (/\ pc # "new" /\ HasVertices
     /\ \A k \in 1..Len(DocGeoms) :
            DocGeoms[k].geom.hasBoundaries => IsList(DocGeoms[k].geom.boundaries))
    => pc = "ready" /\ raised = ""

\* the rows a result of filter_by_type holds
RetRows ==
    [i \in 1..Len(ret.val.cells) |->
        [cell |-> ret.val.cells[i], id |-> ret.val.cell_data.object_id[i],
         type |-> ret.val.cell_data.object_type[i]]]
HasArgType(row) == row.type = ret.arg

\* C9: filter_by_type(t) returns the polygons whose object_type is exactly t,
\* in their order and with their attributes, and None when there is none.
C9_FilterProjection ==
    ret.op = "filter_by_type" =>
        IF SelectSeq(MeshRows, HasArgType) = <<>> THEN ret.val = None
        ELSE /\ ret.val # None
             /\ Len(ret.val.cell_data.object_type) = Len(ret.val.cells)
             /\ Len(ret.val.cell_data.object_id) = Len(ret.val.cells)
             /\ RetRows = SelectSeq(MeshRows, HasArgType)

\* a filter returned several polygons, not all, from behind polygons of
\* another type
C9_Witness ==
    /\ ret.op = "filter_by_type" /\ ret.val # None
    /\ Len(ret.val.cells) >= 2
    /\ Len(ret.val.cells) < Len(Cells)
    /\ MeshRows[1].type # ret.arg
    /\ ret.val.cells[1] # ret.val.cells[2]

\* C10: color_by_surface returns None exactly when the mesh holds no polygon,
\* and the mesh itself (points, polygons, attributes) otherwise; no query
\* changes the reader's mesh or data.
C10_ColorBySurface ==
    /\ [](ret.op = "color_by_surface" =>
            ret.val = IF n_cells(_mesh) = 0 THEN None ELSE _mesh)
    /\ [][pc = "ready" => _mesh' = _mesh /\ _data' = _data]_vars

\* color_by_surface returned a mesh of several polygons after a filter
C10_Witness ==
    /\ ret.op = "color_by_surface" /\ ret.val # None
    /\ n_cells(ret.val) >= 2 /\ n_points(ret.val) = n_points(_mesh)

====
